---- MODULE Spec2Model ----
(***************************************************************************)
(* Model of daily_quote_bot.py: one process, started once per scheduled    *)
(* invocation by main(), that fetches a quote, compares its fingerprint    *)
(* with the tracking file last_quote_data.json, posts the quote to the     *)
(* chat API when it is new, and writes the tracking file after a           *)
(* successful post.                                                        *)
(*                                                                         *)
(* Text is modelled by TLA+ strings (Len, \o and SubSeq act on them as     *)
(* len, + and slicing do in Python).  The non-ASCII glyphs of the message  *)
(* template are replaced by ASCII stand-ins with the same number of code   *)
(* points.  hashlib.md5 is modelled as an injective function of the        *)
(* identifier string: digest collisions are outside the model.             *)
(***************************************************************************)
EXTENDS Integers, Sequences, FiniteSets, TLC

VARIABLES
    pc,             \* position of the process: idle, fetch, check, send, save, exited
    clock,          \* number of invocations so far (datetime.now() ticks with it)
    runs_left,      \* invocations the scheduler still makes
    today,          \* index into Days: the calendar day of the invocation
    disk,           \* content of last_quote_data.json
    attempt,        \* loop variable of the fetch retry loop
    quote_data,     \* run(): quote_data
    current_hash,   \* run(): current_hash ("" until is_new_quote computes it)
    is_new,         \* run(): is_new
    message,        \* run(): message
    send_result,    \* "none", "true", "false": what send_to_telegram returned
    run_result,     \* return value of run() ("" while it has not returned)
    exit_status,    \* exit status of the process (-1 while it runs)
    uncaught,       \* an exception left main() uncaught
    posts,          \* texts handed to requests.post in this invocation
    gets,           \* requests.get calls of this invocation
    get_failures,   \* requests.get calls of this invocation that raised
    fetch_exhausted,\* the retry loop re-raised after its last attempt
    creds_ok,       \* both credentials were present in this invocation
    save_called,    \* save_quote_data was called in this invocation
    last_save_ok,   \* the most recent save_quote_data wrote the file
    disk_at_start,  \* disk when the invocation started
    last_delivered, \* fingerprint of the last quote whose post succeeded
    delivered,      \* fingerprints of all quotes whose post succeeded
    undelivered,    \* fingerprints whose latest post failed
    retry_due,      \* this invocation obtained a fingerprint of undelivered
    arg,            \* inputs of get_quote_hash under SpecHash
    ret             \* its results

vars == <<pc, clock, runs_left, today, disk, attempt, quote_data, current_hash,
          is_new, message, send_result, run_result, exit_status, uncaught,
          posts, gets, get_failures, fetch_exhausted, creds_ok, save_called,
          last_save_ok, disk_at_start, last_delivered, delivered, undelivered,
          retry_due, arg, ret>>

----------------------------------------------------------------------------
(* Bounds of the model *)

\* invocations the scheduler makes
MaxRuns == 2

\* message lengths tried on either side of max_length
TruncSpan == 30

(* Program constants *)

max_retries == 3

max_length == 4000

HashPrefix == 200

PreviewLength == 100

----------------------------------------------------------------------------
(* Text helpers *)

Min(a, b) == IF a < b THEN a ELSE b

\* Python s[:n] for n >= 0
Slice(s, n) == SubSeq(s, 1, Min(n, Len(s)))

RECURSIVE Rep(_, _)
Rep(s, n) ==
    IF n = 0 THEN ""
    ELSE LET h == Rep(s, n \div 2)
         IN  h \o h \o (IF n % 2 = 1 THEN s ELSE "")

EndsWith(s, t) ==
    /\ Len(s) >= Len(t)
    /\ SubSeq(s, Len(s) - Len(t) + 1, Len(s)) = t

----------------------------------------------------------------------------
(* JSON documents, as json.load returns them *)

JNull == [t |-> "null"]
JBool(b) == [t |-> "bool", b |-> b]
JNum(n) == [t |-> "number", n |-> n]
JStr(s) == [t |-> "string", s |-> s]
JArr(a) == [t |-> "array", a |-> a]
JObj(m) == [t |-> "object", m |-> m]

\* Python truth value of a loaded document
Truthy(j) ==
    CASE j.t = "null" -> FALSE
      [] j.t = "bool" -> j.b
      [] j.t = "number" -> j.n # 0
      [] j.t = "string" -> j.s # ""
      [] j.t = "array" -> j.a # <<>>
      [] j.t = "object" -> DOMAIN j.m # {}

\* value[:8] is defined for str and list, and raises for everything else
Sliceable(j) == j.t \in {"string", "array"}

(* The tracking file: absent, unreadable (open raises), or holding text    *)
(* that is empty, not JSON ("garbage"), or one JSON document.              *)
FileAbsent == [kind |-> "absent"]
FileUnreadable == [kind |-> "unreadable"]
FileEmpty == [kind |-> "empty"]
FileGarbage == [kind |-> "garbage"]
FileDoc(j) == [kind |-> "json", doc |-> j]

----------------------------------------------------------------------------
(* Calendar and clock *)

\* str(date.today()) and datetime.now().strftime("%A, %B %d, %Y") on two days
Days ==
    << [iso |-> "2025-06-02", label |-> "Monday, June 02, 2025"],
       [iso |-> "2025-06-03", label |-> "Tuesday, June 03, 2025"] >>

\* datetime.now().isoformat() of the invocation numbered c
Now(c) == "T" \o ToString(c)

----------------------------------------------------------------------------
(* Quotes *)

\* the value of a quote_data that tests false
NoQuote == [t |-> "None"]

fallback_quotes ==
    << [title |-> "Persistence Pays",
        content |-> "Success is not final, failure is not fatal: it is the courage to continue that counts. Keep pushing forward, even when the path seems difficult. Each challenge you overcome makes you stronger and more resilient.",
        author |-> "Daily Motivator"],
       [title |-> "New Beginnings",
        content |-> "Every day is a fresh start. Yesterday's mistakes don't define today's possibilities. Embrace the opportunity to grow and improve. Your potential is limitless when you approach each day with renewed energy.",
        author |-> "Daily Motivator"],
       [title |-> "Inner Strength",
        content |-> "You are stronger than you think and more capable than you realize. Trust in your abilities and take confident steps toward your goals. The power to change your life lies within you.",
        author |-> "Daily Motivator"],
       [title |-> "Focus Forward",
        content |-> "Focus on progress, not perfection. Every small step forward is a victory worth celebrating. Consistency in small actions leads to extraordinary results over time.",
        author |-> "Daily Motivator"] >>

get_fallback_quote_none(k, day) == NoQuote
\* random.choice picks entry k; both dates are read from the clock
get_fallback_quote(k, day) ==
    [date |-> Days[day].label,
     title |-> fallback_quotes[k].title,
     content |-> fallback_quotes[k].content,
     author |-> fallback_quotes[k].author,
     fetch_date |-> Days[day].iso]

(* What the extraction of a fetched page ends in.  The line scan itself is *)
(* not modelled: a page stands for the fields the scan finds in it.  A     *)
(* page with no extractable content, or one the parser raises on, ends in  *)
(* the fallback quote; every other page yields non-empty fields.           *)
LongBody == Rep("Keep going, one step at a time. ", 7)

Pages ==
    { [kind |-> "quote", date |-> "Monday, June 2, 2025", title |-> "Stay the Course",
       content |-> "Stay with it when it gets hard.\n\nThe effort you make today pays off.",
       author |-> "Ralph Marston"],
      [kind |-> "quote", date |-> "Tuesday, June 3, 2025", title |-> "Daily Motivation",
       content |-> LongBody \o "Begin.", author |-> "Ralph Marston"],
      [kind |-> "quote", date |-> "Tuesday, June 3, 2025", title |-> "Daily Motivation",
       content |-> LongBody \o "Begin again.", author |-> "Ralph Marston - greatday.com"],
      [kind |-> "no_content"],
      [kind |-> "parse_error"] }

\* fetch_daily_quote after a response arrived; k is random.choice's pick
extract_quote(page, k, day) ==
    IF page.kind = "quote"
    THEN [date |-> page.date, title |-> page.title, content |-> page.content,
          author |-> page.author, fetch_date |-> Days[day].iso]
    ELSE get_fallback_quote(k, day)

----------------------------------------------------------------------------
(* Fingerprint *)

\* stands for hashlib.md5(s.encode()).hexdigest()
MD5(s) == "md5(" \o s \o ")"

quote_identifier_author(q) ==
    q.date \o "|" \o q.title \o "|" \o Slice(q.content, HashPrefix) \o "|" \o q.author
quote_identifier(q) ==
    q.date \o "|" \o q.title \o "|" \o Slice(q.content, HashPrefix)

get_quote_hash(q) == MD5(quote_identifier(q))

----------------------------------------------------------------------------
(* Tracking file *)

\* None is returned as JNull
load_last_quote_data(file) ==
    CASE file.kind = "absent" -> JNull
      [] file.kind = "unreadable" -> JNull
      [] file.kind \in {"empty", "garbage"} -> JNull
      [] file.kind = "json" ->
            IF ~Truthy(file.doc) \/ file.doc.t # "object" THEN JNull ELSE file.doc

is_new_quote_always(q, file) ==
    [raised |-> FALSE, is_new |-> TRUE, hash |-> get_quote_hash(q)]
\* raised: the slice of last_hash in the log line raised
is_new_quote(q, file) ==
    LET h == get_quote_hash(q)
        last_data == load_last_quote_data(file)
    IN  IF ~Truthy(last_data)
        THEN [raised |-> FALSE, is_new |-> TRUE, hash |-> h]
        ELSE LET last_hash == IF "hash" \in DOMAIN last_data.m
                              THEN last_data.m.hash
                              ELSE JStr("")
             IN  IF ~Sliceable(last_hash)
                 THEN [raised |-> TRUE, is_new |-> FALSE, hash |-> h]
                 ELSE [raised |-> FALSE, is_new |-> (JStr(h) # last_hash), hash |-> h]

\* data_to_save
TrackingRecord(q, h, now) ==
    JObj([hash |-> JStr(h),
          date |-> JStr(q.date),
          title |-> JStr(q.title),
          sent_at |-> JStr(now),
          fetch_date |-> JStr(q.fetch_date),
          content_preview |->
              JStr(IF Len(q.content) > PreviewLength
                   THEN Slice(q.content, PreviewLength) \o "..."
                   ELSE q.content)])

(* The file after save_quote_data.  open(.., 'w') either raises and leaves *)
(* the file alone, or truncates it; json.dump then writes the record or    *)
(* raises with nothing or a part of it written.                            *)
WriteOutcomes == {"ok", "open_fails", "dump_fails_empty", "dump_fails_partial"}

save_quote_data(file, q, h, now, w) ==
    CASE w = "ok" -> FileDoc(TrackingRecord(q, h, now))
      [] w = "open_fails" -> file
      [] w = "dump_fails_empty" -> FileEmpty
      [] w = "dump_fails_partial" -> FileGarbage

----------------------------------------------------------------------------
(* Message *)

format_message(q) ==
    "@*** <b>Daily Motivator</b>\n\n"
    \o "@### <i>" \o q.date \o "</i>\n\n"
    \o "<b>" \o q.title \o "</b>\n\n"
    \o q.content \o "\n\n"
    \o "--- <i>" \o q.author \o "</i>"

error_msg == "X Sorry, couldn't fetch today's quote. Please try again later."

TruncationMarker == "...\n\n[Truncated]"

\* the text send_to_telegram puts in the POST
telegram_text(m) ==
    IF Len(m) > max_length
    THEN Slice(m, max_length - 10) \o TruncationMarker
    ELSE m

(* What the POST ends in: status 200 with "ok" true, status 200 with "ok"  *)
(* false, status 200 with a body response.json() raises on, another        *)
(* status, or requests.post raising.                                       *)
PostOutcomes == {"200_ok", "200_not_ok", "200_bad_json", "http_error", "exception"}

send_to_telegram(outcome) == outcome = "200_ok"

persist_always(sent) == TRUE
persist_inverted(sent) == ~sent
\* run(): save_quote_data is called in the branch where the send succeeded
persist_after_send(sent) == sent

----------------------------------------------------------------------------
(* Contents the tracking file can have when the bot is deployed *)

\* the fingerprint a file holds: the "hash" string of a JSON object, else ""
StoredFingerprint(file) ==
    IF /\ file.kind = "json"
       /\ file.doc.t = "object"
       /\ "hash" \in DOMAIN file.doc.m
       /\ file.doc.m.hash.t = "string"
    THEN file.doc.m.hash.s
    ELSE ""

EarlierQuote == extract_quote(CHOOSE p \in Pages : p.kind = "quote" /\ p.title = "Stay the Course", 1, 1)

\* a record an earlier invocation wrote
EarlierRecord == TrackingRecord(EarlierQuote, get_quote_hash(EarlierQuote), Now(0))

NotObjectFiles ==
    { FileDoc(JNull), FileDoc(JBool(FALSE)), FileDoc(JBool(TRUE)), FileDoc(JNum(0)),
      FileDoc(JNum(5)), FileDoc(JStr("")), FileDoc(JStr("abc")), FileDoc(JArr(<<>>)),
      FileDoc(JArr(<<JNum(1)>>)) }

NoHashFiles ==
    { FileDoc(JObj(<<>>)), FileDoc(JObj([date |-> JStr("Monday, June 2, 2025")])) }

BadHashFiles ==
    { FileDoc(JObj([hash |-> JNull])), FileDoc(JObj([hash |-> JNum(5)])),
      FileDoc(JObj([hash |-> JBool(TRUE)])), FileDoc(JObj([hash |-> JArr(<<>>)])),
      FileDoc(JObj([hash |-> JArr(<<JStr("abc123")>>)])),
      FileDoc(JObj([hash |-> JObj(<<>>)])) }

MalformedFiles ==
    {FileAbsent, FileUnreadable, FileEmpty, FileGarbage}
        \cup NotObjectFiles \cup NoHashFiles \cup BadHashFiles

WellFormedFiles ==
    { FileDoc(EarlierRecord), FileDoc(JObj([hash |-> JStr("abc123")])) }

TrackingFiles == MalformedFiles \cup WellFormedFiles

----------------------------------------------------------------------------
(* Initial states *)

InitWith(file, runs, input) ==
    /\ pc = "idle"
    /\ clock = 0
    /\ runs_left = runs
    /\ today = 1
    /\ disk = file
    /\ attempt = 0
    /\ quote_data = NoQuote
    /\ current_hash = ""
    /\ is_new = FALSE
    /\ message = ""
    /\ send_result = "none"
    /\ run_result = ""
    /\ exit_status = -1
    /\ uncaught = FALSE
    /\ posts = <<>>
    /\ gets = 0
    /\ get_failures = 0
    /\ fetch_exhausted = FALSE
    /\ creds_ok = FALSE
    /\ save_called = FALSE
    /\ last_save_ok = TRUE
    /\ disk_at_start = file
    /\ last_delivered = StoredFingerprint(file)
    /\ delivered = {StoredFingerprint(file)} \ {""}
    /\ undelivered = {}
    /\ retry_due = FALSE
    /\ arg = input
    /\ ret = <<>>

Init == \E file \in TrackingFiles : InitWith(file, MaxRuns, <<>>)

----------------------------------------------------------------------------
(* main() and run() *)

\* the process ends: run() returned result (status 0), sys.exit(1), or an
\* exception left main()
Exit(status, result, raised) ==
    /\ pc' = "exited"
    /\ exit_status' = status
    /\ run_result' = result
    /\ uncaught' = raised

\* os.environ.get returns None or "" for a missing credential: both test false
Credentials == {"", "set"}

\* The scheduler invokes main(); day is the calendar day of the invocation.
Main(token, chat_id, day) ==
    /\ pc \in {"idle", "exited"}
    /\ runs_left > 0
    /\ day \in {today, today + 1} \cap (1..Len(Days))
    /\ runs_left' = runs_left - 1
    /\ clock' = clock + 1
    /\ today' = day
    /\ disk_at_start' = disk
    /\ attempt' = 0
    /\ quote_data' = NoQuote
    /\ current_hash' = ""
    /\ is_new' = FALSE
    /\ message' = ""
    /\ send_result' = "none"
    /\ posts' = <<>>
    /\ gets' = 0
    /\ get_failures' = 0
    /\ fetch_exhausted' = FALSE
    /\ save_called' = FALSE
    /\ retry_due' = FALSE
    /\ creds_ok' = (token # "" /\ chat_id # "")
    /\ IF token = "" \/ chat_id = ""
       THEN Exit(1, "", FALSE)
       ELSE /\ pc' = "fetch"
            /\ exit_status' = -1
            /\ run_result' = ""
            /\ uncaught' = FALSE
    /\ UNCHANGED <<disk, last_save_ok, last_delivered, delivered, undelivered, arg, ret>>

retry_again_off_by_one(a) == a < max_retries
\* the retry loop sleeps and tries again unless this was the last attempt
retry_again(a) == a < max_retries - 1

\* requests.get or raise_for_status raises RequestException
FetchFails(k) ==
    /\ pc = "fetch"
    /\ gets' = gets + 1
    /\ get_failures' = get_failures + 1
    /\ IF retry_again(attempt)
       THEN /\ attempt' = attempt + 1
            /\ UNCHANGED <<pc, quote_data, fetch_exhausted>>
       ELSE /\ quote_data' = get_fallback_quote(k, today)
            /\ fetch_exhausted' = TRUE
            /\ pc' = "check"
            /\ UNCHANGED attempt
    /\ UNCHANGED <<clock, runs_left, today, disk, current_hash, is_new, message,
                   send_result, run_result, exit_status, uncaught, posts, creds_ok,
                   save_called, last_save_ok, disk_at_start, last_delivered,
                   delivered, undelivered, retry_due, arg, ret>>

\* requests.get returns a page; the rest of fetch_daily_quote extracts from it
FetchResponds(page, k) ==
    /\ pc = "fetch"
    /\ gets' = gets + 1
    /\ quote_data' = extract_quote(page, k, today)
    /\ pc' = "check"
    /\ UNCHANGED <<clock, runs_left, today, disk, attempt, current_hash, is_new,
                   message, send_result, run_result, exit_status, uncaught, posts,
                   get_failures, fetch_exhausted, creds_ok, save_called,
                   last_save_ok, disk_at_start, last_delivered, delivered,
                   undelivered, retry_due, arg, ret>>

\* run() from the test of quote_data to the call of send_to_telegram
CheckNew ==
    /\ pc = "check"
    /\ IF quote_data = NoQuote
       THEN /\ posts' = Append(posts, telegram_text(error_msg))
            /\ Exit(0, "Failed to fetch quote", FALSE)
            /\ UNCHANGED <<current_hash, is_new, message, retry_due>>
       ELSE LET r == is_new_quote(quote_data, disk)
            IN  /\ current_hash' = r.hash
                /\ is_new' = r.is_new
                /\ retry_due' = (r.hash \in undelivered)
                /\ UNCHANGED posts
                /\ IF r.raised
                   THEN Exit(1, "", TRUE) /\ UNCHANGED message
                   ELSE IF ~r.is_new
                   THEN Exit(0, "No new quote - skipped", FALSE) /\ UNCHANGED message
                   ELSE /\ message' = format_message(quote_data)
                        /\ pc' = "send"
                        /\ UNCHANGED <<exit_status, run_result, uncaught>>
    /\ UNCHANGED <<clock, runs_left, today, disk, attempt, quote_data, send_result,
                   gets, get_failures, fetch_exhausted, creds_ok, save_called,
                   last_save_ok, disk_at_start, last_delivered, delivered,
                   undelivered, arg, ret>>

\* send_to_telegram(message) and the branch run() takes on its result
SendToTelegram(outcome) ==
    /\ pc = "send"
    /\ posts' = Append(posts, telegram_text(message))
    /\ LET sent == send_to_telegram(outcome)
       IN  /\ send_result' = IF sent THEN "true" ELSE "false"
           /\ last_delivered' = IF sent THEN current_hash ELSE last_delivered
           /\ delivered' = IF sent THEN delivered \cup {current_hash} ELSE delivered
           /\ undelivered' = IF sent THEN undelivered \ {current_hash}
                                     ELSE undelivered \cup {current_hash}
           /\ IF persist_after_send(sent)
              THEN /\ pc' = "save"
                   /\ UNCHANGED <<exit_status, run_result, uncaught>>
              ELSE Exit(0, "Failed to send quote", FALSE)
    /\ UNCHANGED <<clock, runs_left, today, disk, attempt, quote_data, current_hash,
                   is_new, message, gets, get_failures, fetch_exhausted, creds_ok,
                   save_called, last_save_ok, disk_at_start, retry_due, arg, ret>>

\* save_quote_data(quote_data, current_hash), then run() returns
SaveQuoteData(w) ==
    /\ pc = "save"
    /\ disk' = save_quote_data(disk, quote_data, current_hash, Now(clock), w)
    /\ save_called' = TRUE
    /\ last_save_ok' = (w = "ok")
    /\ Exit(0, IF send_result = "true" THEN "New quote sent successfully"
               ELSE "Failed to send quote", FALSE)
    /\ UNCHANGED <<clock, runs_left, today, attempt, quote_data, current_hash, is_new,
                   message, send_result, posts, gets, get_failures, fetch_exhausted,
                   creds_ok, disk_at_start, last_delivered, delivered, undelivered,
                   retry_due, arg, ret>>

Picks == 1..Len(fallback_quotes)

Next ==
    \/ \E token \in Credentials, chat_id \in Credentials, day \in 1..Len(Days) :
           Main(token, chat_id, day)
    \/ \E k \in Picks : FetchFails(k)
    \/ \E page \in Pages, k \in Picks : FetchResponds(page, k)
    \/ CheckNew
    \/ \E outcome \in PostOutcomes : SendToTelegram(outcome)
    \/ \E w \in WriteOutcomes : SaveQuoteData(w)

Spec == Init /\ [][Next]_vars

----------------------------------------------------------------------------
(* Runs on pages whose formatted message is about max_length long *)

LongPage(n) ==
    [kind |-> "quote", date |-> "Monday, June 2, 2025", title |-> "Stay the Course",
     content |-> Rep("a", n), author |-> "Ralph Marston"]

\* the content length at which the formatted message is max_length long
FitLength == max_length - Len(format_message(extract_quote(LongPage(0), 1, 1)))

LongPages == { LongPage(n) : n \in (FitLength - TruncSpan)..(FitLength + TruncSpan) }

InitSend == InitWith(FileAbsent, 1, <<>>)

NextSend ==
    \/ \E token \in Credentials, chat_id \in Credentials, day \in 1..Len(Days) :
           Main(token, chat_id, day)
    \/ \E page \in LongPages : FetchResponds(page, 1)
    \/ CheckNew
    \/ \E outcome \in PostOutcomes : SendToTelegram(outcome)
    \/ \E w \in WriteOutcomes : SaveQuoteData(w)

SpecSend == InitSend /\ [][NextSend]_vars

----------------------------------------------------------------------------
(* get_quote_hash on pairs of quotes *)

HashBodies ==
    { Rep("a", HashPrefix - 1), Rep("a", HashPrefix), Rep("a", HashPrefix) \o "x",
      Rep("a", HashPrefix) \o "y", Rep("a", HashPrefix - 1) \o "b" }

HashQuotes ==
    [date : {"Monday, June 2, 2025", "Tuesday, June 3, 2025"},
     title : {"Stay the Course", "Daily Motivation"},
     content : HashBodies,
     author : {"Ralph Marston", "Daily Motivator"},
     fetch_date : {Days[1].iso, Days[2].iso}]

InitHash == \E q1 \in HashQuotes, q2 \in HashQuotes : InitWith(FileAbsent, 0, <<q1, q2>>)

ComputeHashes ==
    /\ arg # <<>>
    /\ ret = <<>>
    /\ ret' = <<get_quote_hash(arg[1]), get_quote_hash(arg[2])>>
    /\ UNCHANGED <<pc, clock, runs_left, today, disk, attempt, quote_data,
                   current_hash, is_new, message, send_result, run_result,
                   exit_status, uncaught, posts, gets, get_failures,
                   fetch_exhausted, creds_ok, save_called, last_save_ok,
                   disk_at_start, last_delivered, delivered, undelivered,
                   retry_due, arg>>

SpecHash == InitHash /\ [][ComputeHashes]_vars

----------------------------------------------------------------------------
(* Properties *)

AtRunBoundary == pc \in {"idle", "exited"}

\* is_new_quote was entered in this invocation
Checked == current_hash # ""

IsFallbackQuote(q) ==
    \E k \in Picks :
        /\ q.title = fallback_quotes[k].title
        /\ q.content = fallback_quotes[k].content
        /\ q.author = fallback_quotes[k].author

AllFieldsNonEmpty(q) ==
    /\ q.date # ""
    /\ q.title # ""
    /\ q.content # ""
    /\ q.author # ""
    /\ q.fetch_date # ""

Posted(text) == \E i \in 1..Len(posts) : posts[i] = text

(* C1, as claimed: between invocations the fingerprint in the tracking     *)
(* file is that of the most recent quote whose send succeeded, whatever    *)
(* the storage write did.                                                  *)
C1_DiskIsLastDelivered ==
    AtRunBoundary => StoredFingerprint(disk) = last_delivered

(* C1, amended: the fingerprint in the tracking file is always that of a   *)
(* quote whose send succeeded, never that of one fetched and not           *)
(* delivered; between invocations it is that of the most recent delivered  *)
(* quote whenever the write that followed that delivery succeeded.         *)
C1_DiskIsDeliveredAndLastWhenSaved ==
    /\ StoredFingerprint(disk) \in delivered \cup {""}
    /\ (AtRunBoundary /\ last_save_ok) => StoredFingerprint(disk) = last_delivered

\* a delivered quote replaced the record of an earlier, different one
C1_Witness ==
    /\ pc = "exited"
    /\ send_result = "true"
    /\ save_called
    /\ last_save_ok
    /\ StoredFingerprint(disk_at_start) \notin {"", current_hash}
    /\ StoredFingerprint(disk) = current_hash

(* C2: when send_to_telegram reports failure, save_quote_data is not       *)
(* called and the tracking file after the run equals the file before it.   *)
C2_SendFailureLeavesFile ==
    (pc = "exited" /\ send_result = "false") =>
        (disk = disk_at_start /\ ~save_called)

C2_Witness ==
    /\ pc = "exited"
    /\ send_result = "false"
    /\ run_result = "Failed to send quote"
    /\ StoredFingerprint(disk_at_start) # ""

(* C3: when the tracking file holds fingerprint F and the quote obtained   *)
(* has fingerprint F, the run ends skipped, with no POST issued and the    *)
(* tracking file not rewritten.                                            *)
C3_SameFingerprintSkips ==
    (Checked /\ StoredFingerprint(disk_at_start) = current_hash) =>
        /\ pc = "exited"
        /\ run_result = "No new quote - skipped"
        /\ exit_status = 0
        /\ posts = <<>>
        /\ send_result = "none"
        /\ ~save_called
        /\ disk = disk_at_start

\* the second invocation obtains the quote the first one delivered and saved
C3_Witness ==
    /\ Checked
    /\ clock = 2
    /\ StoredFingerprint(disk_at_start) = current_hash
    /\ disk_at_start.doc.m.sent_at = JStr(Now(1))
    /\ run_result = "No new quote - skipped"

(* C4, as claimed: with a missing or malformed tracking file,              *)
(* is_new_quote reports the quote as new and raises nothing.               *)
C4_MalformedIsAbsent ==
    (Checked /\ disk_at_start \in MalformedFiles) => (is_new /\ ~uncaught)

(* C5: after a run whose delivery failed, the next invocation that obtains *)
(* a quote with the same fingerprint classifies it as new and attempts     *)
(* the delivery again.                                                     *)
C5_FailedSendIsRetried ==
    retry_due =>
        /\ is_new
        /\ ~uncaught
        /\ pc \in {"send", "save", "exited"}
        /\ pc \in {"save", "exited"} => (Len(posts) = 1 /\ send_result # "none")

C5_Witness ==
    /\ retry_due
    /\ pc = "exited"
    /\ Len(posts) = 1
    /\ send_result = "true"

(* C6: when every fetch attempt fails, the fetcher stops after exactly 3   *)
(* attempts, the quote the run continues with has all five fields          *)
(* non-empty with title, body and author those of one fallback entry, and  *)
(* the run goes on to the new-quote check.                                 *)
C6_ThreeAttemptsThenFallback ==
    /\ gets <= 3
    /\ pc = "fetch" => get_failures < 3
    /\ (get_failures = gets /\ gets >= 3) => fetch_exhausted
    /\ fetch_exhausted =>
        /\ gets = 3
        /\ get_failures = 3
        /\ pc \in {"check", "send", "save", "exited"}
        /\ run_result # "Failed to fetch quote"
        /\ quote_data # NoQuote
        /\ AllFieldsNonEmpty(quote_data)
        /\ IsFallbackQuote(quote_data)
        /\ pc # "check" => current_hash = get_quote_hash(quote_data)

C6_Witness ==
    /\ fetch_exhausted
    /\ gets = 3
    /\ pc = "exited"
    /\ Checked
    /\ quote_data.title = "Focus Forward"

(* C7, as claimed: a message longer than 4000 characters is posted as a    *)
(* text of at most 4000 characters that ends with the truncation marker;   *)
(* a message of 4000 characters or fewer is posted unchanged.              *)
C7_PostedTextAtMost4000 ==
    (Len(posts) = 1 /\ message # "") =>
        IF Len(message) > 4000
        THEN Len(posts[1]) <= 4000 /\ EndsWith(posts[1], TruncationMarker)
        ELSE posts[1] = message

C9_NonZeroExitOnlyForCredentials ==
    pc = "exited" => (((exit_status # 0) <=> ~creds_ok) /\ ~uncaught)

(* C10, as claimed: a run whose fetch attempts are all exhausted posts the *)
(* apology and returns "Failed to fetch quote".                            *)
C10_ApologyWhenFetchExhausted ==
    (pc = "exited" /\ fetch_exhausted) =>
        (run_result = "Failed to fetch quote" /\ Posted(error_msg))

(* C10, amended: a run whose fetch attempts are all exhausted posts no     *)
(* apology and does not return "Failed to fetch quote": it continues with  *)
(* a fallback quote into the new-quote check.                              *)
C10_FallbackNotApology ==
    (fetch_exhausted /\ pc \in {"send", "save", "exited"}) =>
        /\ run_result # "Failed to fetch quote"
        /\ ~Posted(error_msg)
        /\ Checked
        /\ IsFallbackQuote(quote_data)

C10_Witness ==
    /\ fetch_exhausted
    /\ pc = "exited"
    /\ run_result = "New quote sent successfully"
    /\ Posted(format_message(quote_data))

====
